---- MODULE Spec2Model ----
(***************************************************************************)
(* The call rate limiter of pykrakenapi (pykrakenapi.py).                  *)
(*                                                                         *)
(* State: the wall clock, the rate-limiter attributes of each KrakenAPI    *)
(* instance (time_of_last_query, api_counter, limit, factor) and, for each *)
(* caller, its position inside a method call together with the locals of   *)
(* callratelimiter.wrapper.  Time is counted in ticks, TicksPerSecond to   *)
(* the second, so that a datetime difference has a sub-second part which   *)
(* timedelta.seconds drops, and a day part which it drops as well.         *)
(***************************************************************************)
EXTENDS Integers, FiniteSets, Sequences, TLC

\* ------------------------------------------------------------------ bounds
\* clock resolution: ticks per second
TicksPerSecond == 2
\* ticks the clock may advance one by one within a day
MaxTicks == 19
\* whole days the clock may jump
MaxDays == 1
\* calls of a burst without elapsed time
BurstCalls == 9
\* calls made by two concurrent callers
ConcCalls == 9
\* calls made on a pair of instances
PairCalls == 2
\* ticks of the clock where callers or instances are paired
ShortTicks == 2

\* --------------------------------------------------------------- constants
\* datetime.timedelta keeps 0 <= seconds < 86400; the rest goes to .days
SecondsPerDay == 86400
\* def __init__(self, api, tier=2)
DefaultTier == 2

DayTicks == SecondsPerDay * TicksPerSecond

Instances == {1, 2}
Threads == {1, 2}
\* the sequentially used client: one instance, one caller
SeqInstances == {1}
SeqThreads == {1}

\* tier arguments tried at construction; 2, 3, 4 are the recognized ones
Tiers == 1..5

\* --------------------------------------------------------------- methods
\* methods decorated @callratelimiter('ledger/trade history')
LedgerMethods ==
    {"get_recent_trades", "get_trade_balance", "get_trades_history",
     "query_trades_info", "get_ledgers_info", "query_ledgers",
     "get_trade_volume"}

\* methods decorated @callratelimiter('other')
OtherMethods ==
    {"get_server_time", "get_asset_info", "get_tradable_asset_pairs",
     "get_ticker_information", "get_ohlc_data", "get_order_book",
     "get_recent_spread_data", "get_account_balance", "get_open_orders",
     "get_closed_orders", "query_orders_info", "get_open_positions"}

\* methods that carry no decorator and send a request
OrderMethods == {"add_standard_order", "cancel_open_order"}

\* methods that carry no decorator and send nothing
ConversionMethods == {"datetime_to_unixtime", "unixtime_to_datetime"}

WrappedMethods == LedgerMethods \cup OtherMethods
\* one decorated method of each query type
SampleMethods == {"get_ledgers_info", "get_server_time"}
Methods == WrappedMethods \cup OrderMethods \cup ConversionMethods

\* the decorator argument of a wrapped method
MisfiledQueryType(m) ==
    IF m \in LedgerMethods \ {"get_trade_volume"} THEN "ledger/trade history" ELSE "other"
QueryType(m) == IF m \in LedgerMethods THEN "ledger/trade history" ELSE "other"

\* which transport entry point the body of a method invokes
PublicMethods ==
    {"get_server_time", "get_asset_info", "get_tradable_asset_pairs",
     "get_ticker_information", "get_ohlc_data", "get_order_book",
     "get_recent_trades", "get_recent_spread_data"}

Transport(m) ==
    IF m \in ConversionMethods THEN "none"
    ELSE IF m \in PublicMethods THEN "query_public"
    ELSE "query_private"

\* what a method hands back when it returns normally: a pandas DataFrame, a
\* tuple, the exchange's result object (a dict), an int or a datetime
TupleMethods ==
    {"get_server_time", "get_ohlc_data", "get_order_book", "get_recent_trades",
     "get_recent_spread_data", "get_closed_orders", "get_trades_history",
     "get_ledgers_info", "get_trade_volume"}
DictMethods == {"get_open_positions", "add_standard_order", "cancel_open_order"}

MissingReturn(m) == IF m = "get_open_positions" THEN "None" ELSE "DataFrame"
Returns(m) ==
    IF m \in TupleMethods THEN "tuple"
    ELSE IF m \in DictMethods THEN "dict"
    ELSE IF m = "datetime_to_unixtime" THEN "int"
    ELSE IF m = "unixtime_to_datetime" THEN "datetime"
    ELSE "DataFrame"

\* the outcome the caller sees for a normal return: None, or a value
Delivered(m) == IF Returns(m) = "None" THEN "None" ELSE "value"

\* line 48: self = args[0], the instance the method was called on
SharedReceiver(i) == 1
Receiver(i) == i

\* ------------------------------------------------------- pure computations
\* lines 50-54: determine increment
WrongIncrement(query_type) == IF query_type = "ledger/trade history" THEN 3 ELSE 1
Increment(query_type) == IF query_type = "ledger/trade history" THEN 2 ELSE 1

\* (now - self.time_of_last_query).seconds: the seconds field of the
\* normalized timedelta, without its days and without its microseconds
TimedeltaSeconds(delta) == (delta \div TicksPerSecond) % SecondsPerDay

\* line 58: decr = int(timedelta.seconds / self.factor)
RoundedUpDecrement(now, last, f) == (TimedeltaSeconds(now - last) + f - 1) \div f
UndividedDecrement(now, last, f) == TimedeltaSeconds(now - last)
Decrement(now, last, f) == TimedeltaSeconds(now - last) \div f

\* lines 59-61: subtract, then clamp at 0
Clamps(counter, decr) == counter - decr < 0
UnclampedDecay(counter, decr) == counter - decr
Decay(counter, decr) == IF Clamps(counter, decr) THEN 0 ELSE counter - decr

\* line 62: self.time_of_last_query = now
KeptLastQueryTime(now, last) == last
LastQueryTime(now, last) == now

\* line 65: the admission comparison
AdmitAtLimit(counter, lim) == counter <= lim
Admit(counter, lim) == counter < lim

\* lines 65-73: an admitted call goes on to func, a refused one returns
FallThrough(ok) == "func"
AfterCheck(ok) == IF ok THEN "func" ELSE "done"

\* lines 70-73: the refusal path leaves the counter alone
ChargedRefusal(counter, inc) == counter + inc
Refusal(counter, inc) == counter

\* lines 118-128: the tier table of __init__
WrongTierLimit(tier) == IF tier = 2 THEN 15 ELSE IF tier = 3 THEN 15 ELSE 20
TierLimit(tier) == IF tier = 2 THEN 15 ELSE IF tier = 3 THEN 20 ELSE 20
TierFactor(tier) == IF tier = 2 THEN 3 ELSE IF tier = 3 THEN 2 ELSE 1
DefaultingTierAttrs(tier) == {"limit", "factor"}
TierAttrs(tier) == IF tier \in {2, 3, 4} THEN {"limit", "factor"} ELSE {}

\* ------------------------------------------------------------------ state
VARIABLES
    clock,              \* datetime.datetime.now(), in ticks
    attrs,              \* attrs[i]: the attributes instance i has ({} = not constructed)
    time_of_last_query, \* self.time_of_last_query
    api_counter,        \* self.api_counter
    limit,              \* self.limit   (meaningful when "limit" \in attrs[i])
    factor,             \* self.factor  (meaningful when "factor" \in attrs[i])
    pc,                 \* pc[t]: "idle", "check" (l.65), "func" (l.66), "incr" (l.67), "done"
    self,               \* self[t]: the instance of the current call
    func,               \* func[t]: the method of the current call
    incr,               \* incr[t]: the wrapper's local incr
    decr,               \* decr[t]: the wrapper's local decr (line 58)
    clamped,            \* clamped[t]: this call took the branch of lines 60-61
    post_decay,         \* post_decay[t]: self.api_counter as left by lines 59-62 of this call
    decision,           \* decision[t]: "none", "admitted" or "refused" by line 65
    sent,               \* sent[t]: the transport entry point this call invoked, or "none"
    result,             \* result[t]: how the call ended
    calls,              \* calls begun so far, where a specification counts them
    last_refused        \* last_refused[i]: the latest check on instance i refused,
                        \* where a specification records it

vars == <<clock, attrs, time_of_last_query, api_counter, limit, factor,
          pc, self, func, incr, decr, clamped, post_decay, decision, sent, result,
          calls, last_refused>>

inst == <<attrs, time_of_last_query, api_counter, limit, factor>>
locals == <<self, func, incr, decr, clamped, post_decay, decision, sent, result>>
ghost == <<calls, last_refused>>

Results == {"none", "value", "None", "AttributeError", "KrakenAPIError",
            "TransportError", "TypeError"}

Init ==
    /\ clock = 0
    /\ attrs = [i \in Instances |-> {}]
    /\ time_of_last_query = [i \in Instances |-> 0]
    /\ api_counter = [i \in Instances |-> 0]
    /\ limit = [i \in Instances |-> 0]
    /\ factor = [i \in Instances |-> 0]
    /\ pc = [t \in Threads |-> "idle"]
    /\ self = [t \in Threads |-> 1]
    /\ func = [t \in Threads |-> "none"]
    /\ incr = [t \in Threads |-> 0]
    /\ decr = [t \in Threads |-> 0]
    /\ clamped = [t \in Threads |-> FALSE]
    /\ post_decay = [t \in Threads |-> 0]
    /\ decision = [t \in Threads |-> "none"]
    /\ sent = [t \in Threads |-> "none"]
    /\ result = [t \in Threads |-> "none"]
    /\ calls = 0
    /\ last_refused = [i \in Instances |-> FALSE]

\* ------------------------------------------------------------------ clock
\* The code reads the clock on lines 57 and 115 only.  For one caller, time
\* that passes inside a call reaches the limiter exactly as time that passes
\* before the next call does, so the clock advances between calls.
Idle == \A t \in Threads : pc[t] = "idle"

\* a timer that takes a unit off every counter as the clock advances
TimerTick ==
    /\ Idle
    /\ clock % DayTicks < MaxTicks
    /\ clock' = clock + 1
    /\ api_counter' = [i \in Instances |->
                          IF api_counter[i] > 0 THEN api_counter[i] - 1 ELSE 0]
    /\ UNCHANGED <<attrs, time_of_last_query, limit, factor, pc, locals, ghost>>

\* the wall clock advances by one tick
TickSmall ==
    /\ Idle
    /\ clock % DayTicks < MaxTicks
    /\ clock' = clock + 1
    /\ UNCHANGED <<inst, pc, locals, ghost>>

\* the wall clock advances by a whole day
TickDay ==
    /\ Idle
    /\ clock \div DayTicks < MaxDays
    /\ clock' = clock + DayTicks
    /\ UNCHANGED <<inst, pc, locals, ghost>>

\* ----------------------------------------------------------- construction
\* KrakenAPI.__init__(api, tier)
Construct(i, tier) ==
    /\ attrs[i] = {}
    /\ attrs' = [attrs EXCEPT ![i] =
                    {"api", "time_of_last_query", "api_counter"} \cup TierAttrs(tier)]
    /\ time_of_last_query' = [time_of_last_query EXCEPT ![i] = clock]
    /\ api_counter' = [api_counter EXCEPT ![i] = 0]
    /\ limit' = [limit EXCEPT ![i] =
                    IF "limit" \in TierAttrs(tier) THEN TierLimit(tier) ELSE @]
    /\ factor' = [factor EXCEPT ![i] =
                    IF "factor" \in TierAttrs(tier) THEN TierFactor(tier) ELSE @]
    /\ UNCHANGED <<ghost, clock, pc, locals>>

\* KrakenAPI(api): the tier argument left out
ConstructDefault(i) == Construct(i, DefaultTier)

\* ------------------------------------------------------------------ calls
\* wrapper, lines 48-62, of a decorated method: determine the increment,
\* read the clock, decay the counter, store the time of this query.
\* Reading self.factor raises AttributeError when __init__ never set it.
Wrapper(t, i, m) ==
    /\ pc[t] = "idle"
    /\ attrs[i] # {}
    /\ m \in WrappedMethods
    /\ LET s == Receiver(i) IN
        /\ self' = [self EXCEPT ![t] = s]
        /\ func' = [func EXCEPT ![t] = m]
        /\ incr' = [incr EXCEPT ![t] = Increment(QueryType(m))]
        /\ IF "factor" \in attrs[s]
           THEN /\ api_counter' = [api_counter EXCEPT ![s] =
                        Decay(@, Decrement(clock, time_of_last_query[s], factor[s]))]
                /\ time_of_last_query' = [time_of_last_query EXCEPT ![s] =
                        LastQueryTime(clock, @)]
                /\ decr' = [decr EXCEPT ![t] =
                        Decrement(clock, time_of_last_query[s], factor[s])]
                /\ clamped' = [clamped EXCEPT ![t] =
                        Clamps(api_counter[s],
                               Decrement(clock, time_of_last_query[s], factor[s]))]
                /\ post_decay' = [post_decay EXCEPT ![t] = api_counter'[s]]
                /\ pc' = [pc EXCEPT ![t] = "check"]
                /\ UNCHANGED result
           ELSE /\ result' = [result EXCEPT ![t] = "AttributeError"]
                /\ pc' = [pc EXCEPT ![t] = "done"]
                /\ UNCHANGED <<api_counter, time_of_last_query, decr, clamped,
                               post_decay>>
    /\ UNCHANGED <<clock, attrs, limit, factor, decision, sent>>

\* a call of a decorated method
Enter(t, i, m) == Wrapper(t, i, m) /\ UNCHANGED ghost

\* wrapper, line 65 and lines 70-73: admit, or print and return None.
\* decr is not read after line 59 and is dropped from the state here.
Decide(t) ==
    /\ pc[t] = "check"
    /\ LET ok == Admit(api_counter[self[t]], limit[self[t]]) IN
        /\ decision' = [decision EXCEPT ![t] = IF ok THEN "admitted" ELSE "refused"]
        /\ api_counter' = [api_counter EXCEPT ![self[t]] =
                            IF ok THEN @ ELSE Refusal(@, incr[t])]
        /\ pc' = [pc EXCEPT ![t] = AfterCheck(ok)]
        /\ result' = [result EXCEPT ![t] = IF AfterCheck(ok) = "done" THEN "None" ELSE @]
    /\ decr' = [decr EXCEPT ![t] = 0]
    /\ UNCHANGED <<clock, attrs, time_of_last_query, limit, factor,
                   self, func, incr, clamped, post_decay, sent>>

\* the check of a call
Check(t) == Decide(t) /\ UNCHANGED ghost

\* a method without decorator that stores the time of the call all the same
StampingUndecorated(t, i, m) ==
    /\ pc[t] = "idle"
    /\ attrs[i] # {}
    /\ m \in OrderMethods \cup ConversionMethods
    /\ self' = [self EXCEPT ![t] = Receiver(i)]
    /\ func' = [func EXCEPT ![t] = m]
    /\ pc' = [pc EXCEPT ![t] = "func"]
    /\ time_of_last_query' = [time_of_last_query EXCEPT ![Receiver(i)] = clock]
    /\ UNCHANGED <<clock, attrs, api_counter, limit, factor,
                   incr, decr, clamped, post_decay, decision, sent, result>>

\* a method without decorator is entered directly
Undecorated(t, i, m) ==
    /\ pc[t] = "idle"
    /\ attrs[i] # {}
    /\ m \in OrderMethods \cup ConversionMethods
    /\ self' = [self EXCEPT ![t] = Receiver(i)]
    /\ func' = [func EXCEPT ![t] = m]
    /\ pc' = [pc EXCEPT ![t] = "func"]
    /\ UNCHANGED <<clock, inst, incr, decr, clamped, post_decay, decision, sent, result>>

\* a call of a method without decorator
Direct(t, i, m) == Undecorated(t, i, m) /\ UNCHANGED ghost

\* where the body of a method hands its result: a decorated method returns
\* into line 67 of the wrapper, an exception passes through the wrapper
SwallowingAfterBody(t, outcome) ==
    IF func[t] \in WrappedMethods THEN "incr" ELSE "done"
AfterBody(t, outcome) ==
    IF outcome = "value" /\ func[t] \in WrappedMethods THEN "incr" ELSE "done"


\* a request charged to the counter when it is sent, whatever comes back
ChargingQuery(t, outcome) ==
    /\ pc[t] = "func"
    /\ Transport(func[t]) # "none"
    /\ outcome \in {"value", "KrakenAPIError", "TransportError"}
    /\ sent' = [sent EXCEPT ![t] = Transport(func[t])]
    /\ pc' = [pc EXCEPT ![t] = "done"]
    /\ result' = [result EXCEPT ![t] =
                    IF outcome = "value" THEN Delivered(func[t]) ELSE outcome]
    /\ api_counter' = [api_counter EXCEPT ![self[t]] = @ + incr[t]]
    /\ UNCHANGED <<ghost, clock, attrs, time_of_last_query, limit, factor,
                   self, func, incr, decr, clamped, post_decay, decision>>

\* the body of a method that queries the exchange (line 66 for a decorated
\* one): self.api.query_public / query_private raises, or returns a response
\* with a non-empty error array (KrakenAPIError), or returns a result
Query(t, outcome) ==
    /\ pc[t] = "func"
    /\ Transport(func[t]) # "none"
    /\ outcome \in {"value", "KrakenAPIError", "TransportError"}
    /\ sent' = [sent EXCEPT ![t] = Transport(func[t])]
    /\ pc' = [pc EXCEPT ![t] = AfterBody(t, outcome)]
    /\ result' = [result EXCEPT ![t] =
                    IF AfterBody(t, outcome) # "done" THEN @
                    ELSE IF outcome = "value" THEN Delivered(func[t])
                    ELSE outcome]
    /\ UNCHANGED <<ghost, clock, inst, self, func, incr, decr, clamped, post_decay, decision>>

\* the body of datetime_to_unixtime / unixtime_to_datetime: no request
Convert(t, outcome) ==
    /\ pc[t] = "func"
    /\ Transport(func[t]) = "none"
    /\ outcome \in {"value", "TypeError"}
    /\ pc' = [pc EXCEPT ![t] = "done"]
    /\ result' = [result EXCEPT ![t] =
                    IF outcome = "value" THEN Delivered(func[t]) ELSE outcome]
    /\ UNCHANGED <<ghost, clock, inst, self, func, incr, decr, clamped, post_decay, decision, sent>>

\* wrapper, lines 67-68: count the call, return its result
Count(t) ==
    /\ pc[t] = "incr"
    /\ api_counter' = [api_counter EXCEPT ![self[t]] = @ + incr[t]]
    /\ result' = [result EXCEPT ![t] = Delivered(func[t])]
    /\ pc' = [pc EXCEPT ![t] = "done"]
    /\ UNCHANGED <<ghost, clock, attrs, time_of_last_query, limit, factor,
                   self, func, incr, decr, clamped, post_decay, decision, sent>>

\* the caller takes the outcome; the wrapper's frame is gone
Return(t) ==
    /\ pc[t] = "done"
    /\ pc' = [pc EXCEPT ![t] = "idle"]
    /\ self' = [self EXCEPT ![t] = 1]
    /\ func' = [func EXCEPT ![t] = "none"]
    /\ incr' = [incr EXCEPT ![t] = 0]
    /\ decr' = [decr EXCEPT ![t] = 0]
    /\ clamped' = [clamped EXCEPT ![t] = FALSE]
    /\ post_decay' = [post_decay EXCEPT ![t] = 0]
    /\ decision' = [decision EXCEPT ![t] = "none"]
    /\ sent' = [sent EXCEPT ![t] = "none"]
    /\ result' = [result EXCEPT ![t] = "none"]
    /\ UNCHANGED <<ghost, clock, inst>>

\* ---------------------------------------------------------- specification
\* one client instance used by one caller
Next ==
    \/ TickSmall
    \/ TickDay
    \/ \E i \in SeqInstances : \E tier \in Tiers : Construct(i, tier)
    \/ \E i \in SeqInstances : ConstructDefault(i)
    \/ \E t \in SeqThreads : \E i \in SeqInstances : \E m \in Methods : Enter(t, i, m)
    \/ \E t \in SeqThreads : \E i \in SeqInstances : \E m \in Methods : Direct(t, i, m)
    \/ \E t \in SeqThreads : Check(t)
    \/ \E t \in SeqThreads : \E o \in Results : Query(t, o)
    \/ \E t \in SeqThreads : \E o \in Results : Convert(t, o)
    \/ \E t \in SeqThreads : Count(t)
    \/ \E t \in SeqThreads : Return(t)

Spec == Init /\ [][Next]_vars

\* ------------------------------------------------------------------ burst
\* one caller issues ledger/trade history calls back to back: the clock
\* reads the same on every call
BurstEnter(t, i, m) ==
    /\ calls < BurstCalls
    /\ m \in LedgerMethods
    /\ Wrapper(t, i, m)
    /\ calls' = calls + 1
    /\ UNCHANGED last_refused

NextBurst ==
    \/ \E i \in SeqInstances : \E tier \in Tiers : Construct(i, tier)
    \/ \E t \in SeqThreads : \E i \in SeqInstances : \E m \in Methods : BurstEnter(t, i, m)
    \/ \E t \in SeqThreads : Check(t)
    \/ \E t \in SeqThreads : \E o \in Results : Query(t, o)
    \/ \E t \in SeqThreads : Count(t)
    \/ \E t \in SeqThreads : Return(t)

SpecBurst == Init /\ [][NextBurst]_vars

\* ------------------------------------------------------- concurrent callers
\* the clock advances, whatever the callers are doing
Pass ==
    /\ clock < ShortTicks
    /\ clock' = clock + 1
    /\ UNCHANGED <<inst, pc, locals, ghost>>

\* Two threads call methods of one instance.  The wrapper takes no lock:
\* the threads interleave between the blocks of lines that the actions
\* model (48-62, 65, 66, 67-68).  Every such interleaving is one the
\* interpreter can produce; it can also switch threads inside a block.
ConcEnter(t, i, m) ==
    /\ calls < ConcCalls
    /\ m \in SampleMethods
    /\ Wrapper(t, i, m)
    /\ calls' = calls + 1
    /\ UNCHANGED last_refused

NextConc ==
    \/ Pass
    \/ \E i \in SeqInstances : \E tier \in Tiers : Construct(i, tier)
    \/ \E t \in Threads : \E i \in SeqInstances : \E m \in Methods : ConcEnter(t, i, m)
    \/ \E t \in Threads : Check(t)
    \/ \E t \in Threads : \E o \in Results : Query(t, o)
    \/ \E t \in Threads : Count(t)
    \/ \E t \in Threads : Return(t)

SpecConc == Init /\ [][NextConc]_vars

\* ------------------------------------------------------------ two instances
\* tiers that differ in limit and in factor, and one __init__ does not know
PairTiers == {2, 4, 5}

\* two callers, each calling methods of either of two instances
PairEnter(t, i, m) ==
    /\ calls < PairCalls
    /\ m \in SampleMethods
    /\ Wrapper(t, i, m)
    /\ calls' = calls + 1
    /\ UNCHANGED last_refused

NextPair ==
    \/ Pass
    \/ \E i \in Instances : \E tier \in PairTiers : Construct(i, tier)
    \/ \E t \in Threads : \E i \in Instances : \E m \in Methods : PairEnter(t, i, m)
    \/ \E t \in Threads : Check(t)
    \/ \E t \in Threads : \E o \in Results : Query(t, o)
    \/ \E t \in Threads : Count(t)
    \/ \E t \in Threads : Return(t)

SpecPair == Init /\ [][NextPair]_vars

\* ----------------------------------------------------------------- two runs
\* Two runs of the program side by side: caller 1 uses instance 1, caller 2
\* uses instance 2.  Caller 1 leads by one step, with any input; caller 2
\* then takes the same step with the same input (tier, method, outcome of
\* the request) at the same clock reading.
InSync == pc[1] = pc[2] /\ attrs[1] = attrs[2]

\* the tier argument instance i was constructed with (1 and 5 alike)
SameTier(i, tier) ==
    /\ attrs[i] = {"api", "time_of_last_query", "api_counter"} \cup TierAttrs(tier)
    /\ "limit" \in attrs[i] => limit[i] = TierLimit(tier)
    /\ "factor" \in attrs[i] => factor[i] = TierFactor(tier)

\* the outcome of the request of the call of t, once Query(t, outcome) is done
Outcome(t) == IF pc[t] = "incr" THEN "value" ELSE result[t]

TwinTick == InSync /\ clock < ShortTicks /\ TickSmall
TwinConstruct(tier) == InSync /\ Construct(1, tier)
TwinEnter(m) == InSync /\ m \in SampleMethods /\ Enter(1, 1, m)
TwinCheck == InSync /\ Check(1)
TwinQuery(o) == InSync /\ Query(1, o)
TwinCount == InSync /\ Count(1)
TwinReturn == InSync /\ Return(1)
ReplayConstruct(tier) == attrs[1] # attrs[2] /\ SameTier(1, tier) /\ Construct(2, tier)
ReplayEnter == pc[1] # pc[2] /\ Enter(2, 2, func[1])
ReplayCheck == pc[1] # pc[2] /\ Check(2)
ReplayQuery == pc[1] # pc[2] /\ Query(2, Outcome(1))
ReplayCount == pc[1] # pc[2] /\ Count(2)
ReplayReturn == pc[1] # pc[2] /\ Return(2)

NextTwin ==
    \/ TwinTick
    \/ \E tier \in Tiers : TwinConstruct(tier)
    \/ \E m \in Methods : TwinEnter(m)
    \/ TwinCheck
    \/ \E o \in Results : TwinQuery(o)
    \/ TwinCount
    \/ TwinReturn
    \/ \E tier \in Tiers : ReplayConstruct(tier)
    \/ ReplayEnter
    \/ ReplayCheck
    \/ ReplayQuery
    \/ ReplayCount
    \/ ReplayReturn

SpecTwin == Init /\ [][NextTwin]_vars

\* ------------------------------------------------------------------ waiting
\* one caller of one instance, as in Spec, with a record of whether the
\* latest check on the instance refused
WaitEnter(t, i, m) == m \in SampleMethods /\ Enter(t, i, m)

WaitCheck(t) ==
    /\ Decide(t)
    /\ last_refused' = [last_refused EXCEPT ![self[t]] = (decision'[t] = "refused")]
    /\ UNCHANGED calls

NextWait ==
    \/ TickSmall
    \/ TickDay
    \/ \E i \in SeqInstances : \E tier \in Tiers : Construct(i, tier)
    \/ \E t \in SeqThreads : \E i \in SeqInstances : \E m \in Methods : WaitEnter(t, i, m)
    \/ \E t \in SeqThreads : WaitCheck(t)
    \/ \E t \in SeqThreads : \E o \in Results : Query(t, o)
    \/ \E t \in SeqThreads : Count(t)
    \/ \E t \in SeqThreads : Return(t)

SpecWait == Init /\ [][NextWait]_vars

TypeOK ==
    /\ clock \in Nat
    /\ \A i \in Instances :
        /\ attrs[i] \subseteq {"api", "time_of_last_query", "api_counter", "limit", "factor"}
        /\ time_of_last_query[i] \in Nat
        /\ api_counter[i] \in Int
        /\ limit[i] \in Nat
        /\ factor[i] \in Nat
    /\ \A t \in Threads :
        /\ pc[t] \in {"idle", "check", "func", "incr", "done"}
        /\ self[t] \in Instances
        /\ func[t] \in Methods \cup {"none"}
        /\ incr[t] \in 0..2
        /\ decr[t] \in Nat
        /\ clamped[t] \in BOOLEAN
        /\ post_decay[t] \in Nat
        /\ decision[t] \in {"none", "admitted", "refused"}
        /\ sent[t] \in {"none", "query_public", "query_private"}
        /\ result[t] \in Results
    /\ calls \in Nat
    /\ \A i \in Instances : last_refused[i] \in BOOLEAN

\* ----------------------------------------------------------------- claims
Recognized(i) == "limit" \in attrs[i] /\ "factor" \in attrs[i]
InWrapper(t) == decision[t] # "none" \/ pc[t] = "check"
Heavy(t) == func[t] \in LedgerMethods
NonNegative(n) == IF n < 0 THEN 0 ELSE n

C2_AdmittedIffBelowLimit ==
    \A t \in Threads :
        /\ decision[t] = "admitted" => post_decay[t] < limit[self[t]]
        /\ decision[t] = "refused" => post_decay[t] >= limit[self[t]]
        /\ (pc[t] \in {"func", "incr"} /\ func[t] \in WrappedMethods)
              => decision[t] = "admitted"

\* a call refused with the counter exactly at limit, after some decay
C2_Witness ==
    \E t \in Threads :
        /\ decision[t] = "refused"
        /\ post_decay[t] = limit[self[t]]
        /\ clock > 0

\* C3 (as stated): a check made after an elapsed time of k decay periods
\* plus a remainder lowers the counter by exactly k, clamped at 0, for every
\* elapsed time, a day or more included.
C3_DecayByWholePeriods ==
    [][\A t \in Threads :
        (pc[t] = "idle" /\ pc'[t] = "check")
            => api_counter'[self'[t]] =
                 NonNegative(api_counter[self'[t]]
                    - ((clock - time_of_last_query[self'[t]])
                          \div (factor[self'[t]] * TicksPerSecond)))]_vars

\* C3, short of a day: for an elapsed time below one day the check lowers
\* the counter by exactly the whole decay periods elapsed, clamped at 0.
C3_DecayWithinADay ==
    [][\A t \in Threads :
        (/\ pc[t] = "idle" /\ pc'[t] = "check"
         /\ clock - time_of_last_query[self'[t]] < DayTicks)
            => api_counter'[self'[t]] =
                 NonNegative(api_counter[self'[t]]
                    - ((clock - time_of_last_query[self'[t]])
                          \div (factor[self'[t]] * TicksPerSecond)))]_vars

\* C4: a refused call leaves the counter at the value the decay of that
\* check gave it, and the counter grows in a step only when that step is
\* the increment of an admitted call.
C4_RefusalIsFree ==
    [][/\ \A t \in Threads :
            (decision'[t] = "refused" \/ decision[t] = "refused")
                => api_counter'[IF decision[t] = "refused" THEN self[t] ELSE self'[t]]
                     = (IF decision[t] = "refused" THEN post_decay[t] ELSE post_decay'[t])
       /\ \A i \in Instances :
            api_counter'[i] > api_counter[i]
                => \E t \in Threads :
                      /\ pc[t] = "incr"
                      /\ decision[t] = "admitted"
                      /\ self[t] = i]_vars

\* a refused call that returned None with the counter still as decayed
C4_Witness ==
    \E t \in Threads :
        /\ pc[t] = "done"
        /\ decision[t] = "refused"
        /\ result[t] = "None"
        /\ api_counter[self[t]] = post_decay[t]

\* C5 (as stated): every admitted call has, when it ends, raised the
\* counter by exactly 2 (ledger/trade history class) or exactly 1 (any
\* other class) over the decayed counter of its check.
C5_AdmittedCallCharged ==
    \A t \in Threads :
        (pc[t] = "done" /\ decision[t] = "admitted")
            => api_counter[self[t]] = post_decay[t] + (IF Heavy(t) THEN 2 ELSE 1)

\* C6: a call whose check found the counter at or above limit never runs
\* the wrapped method and never invokes api.query_public / query_private.
C6_RefusedNeverSent ==
    \A t \in Threads :
        (decision[t] # "none" /\ post_decay[t] >= limit[self[t]])
            => /\ sent[t] = "none"
               /\ pc[t] \notin {"func", "incr"}
               /\ result[t] \notin {"value", "KrakenAPIError", "TransportError"}

\* a refused call over the limit that ended without any request
C6_Witness ==
    \E t \in Threads :
        /\ pc[t] = "done"
        /\ decision[t] = "refused"
        /\ post_decay[t] > limit[self[t]]
        /\ sent[t] = "none"

\* C7 (as stated): every request a KrakenAPI method sends to the transport,
\* add_standard_order and cancel_open_order included, follows an admission
\* check of the same call that admitted it.
C7_EveryRequestAdmitted ==
    \A t \in Threads : sent[t] # "none" => decision[t] = "admitted"

\* C8 (as stated): construction with a tier outside {2, 3, 4} fails, so no
\* client instance exists whose limit or factor is undefined.
C8_InvalidTierRejected ==
    \A i \in Instances : attrs[i] # {} => Recognized(i)

\* C9: construction with a recognized tier gives counter 0, the time of
\* last query equal to the construction time, and limit and decay period
\* (15, 3 s) for tier 2, (20, 2 s) for tier 3, (20, 1 s) for tier 4; a
\* construction without tier argument is one with tier 2.
C9_ConstructionState ==
    [][\A i \in Instances :
        /\ \A tier \in {2, 3, 4} :
             Construct(i, tier)
                => /\ api_counter'[i] = 0
                   /\ time_of_last_query'[i] = clock
                   /\ <<limit'[i], factor'[i]>> =
                        (IF tier = 2 THEN <<15, 3>>
                         ELSE IF tier = 3 THEN <<20, 2>> ELSE <<20, 1>>)
        /\ ConstructDefault(i)
                => /\ api_counter'[i] = 0
                   /\ time_of_last_query'[i] = clock
                   /\ <<limit'[i], factor'[i]>> = <<15, 3>>]_vars

\* a tier 3 client just constructed, at a time other than 0
C9_Witness ==
    \E i \in Instances :
        /\ Recognized(i)
        /\ limit[i] = 20 /\ factor[i] = 2
        /\ api_counter[i] = 0
        /\ time_of_last_query[i] = clock
        /\ clock > 0
        /\ Idle

\* C10 (as stated): the counter of a sequentially used client never
\* exceeds limit.
C10_CounterWithinLimit ==
    \A i \in Instances : Recognized(i) => api_counter[i] <= limit[i]

\* C10 (amended): the counter of a sequentially used client never exceeds
\* limit + 1: a call is admitted only below limit and adds at most 2.
C10_CounterWithinLimitPlusOne ==
    \A i \in Instances : Recognized(i) => api_counter[i] <= limit[i] + 1

\* the counter one above limit, left by a heavy call admitted at limit - 1
C10_Witness ==
    \E t \in Threads :
        /\ pc[t] = "done"
        /\ Heavy(t)
        /\ result[t] = "value"
        /\ post_decay[t] = limit[self[t]] - 1
        /\ api_counter[self[t]] = limit[self[t]] + 1

\* a step in which caller t passes lines 48-62 of the wrapper
Decays(t) == pc[t] = "idle" /\ pc'[t] = "check"
\* a step in which caller t passes line 65
Decides(t) == pc[t] = "check" /\ pc'[t] # "check"
\* the time elapsed, at a step Decays(t), since the last check, in ticks
Elapsed(t) == clock - time_of_last_query[self'[t]]

\* C12: decay comes before the admission comparison: on a tier 2 client
\* with counter 16, a check 9 seconds after the previous check computes 3
\* units of decay and sets the counter to 13, and a check that left the
\* counter below limit admits the call, whatever the counter was before.
C12_DecayThenAdmit ==
    [][\A t \in Threads :
        /\ (/\ Decays(t)
            /\ limit[self'[t]] = 15 /\ factor[self'[t]] = 3
            /\ api_counter[self'[t]] = 16
            /\ Elapsed(t) = 9 * TicksPerSecond)
              => /\ decr'[t] = 3
                 /\ api_counter'[self'[t]] = 13
        /\ (Decides(t) /\ api_counter[self[t]] + decr[t] >= limit[self[t]]
                       /\ api_counter[self[t]] < limit[self[t]])
              => /\ decision'[t] = "admitted"
                 /\ pc'[t] = "func"]_vars

\* a tier 2 check that took 3 units off a counter of 16 and is about to
\* decide on 13
C12_Witness ==
    \E t \in Threads :
        /\ pc[t] = "check"
        /\ limit[self[t]] = 15 /\ factor[self[t]] = 3
        /\ decr[t] = 3 /\ ~clamped[t]
        /\ post_decay[t] = 13
        /\ api_counter[self[t]] = 13

C14_ErrorsPropagate ==
    [][\A t \in Threads :
        \A o \in {"KrakenAPIError", "TransportError"} :
            (Query(t, o) /\ decision[t] = "admitted")
                => /\ pc'[t] = "done"
                   /\ result'[t] = o]_vars

\* an admitted call that ended with the KrakenAPIError its method raised
C14_Witness ==
    \E t \in Threads :
        /\ pc[t] = "done"
        /\ decision[t] = "admitted"
        /\ sent[t] # "none"
        /\ result[t] = "KrakenAPIError"

\* C15: every check, whether it then admits or refuses, has applied the
\* decay and stored the current clock reading as time of last query when
\* the decision is taken.
C15_DecayAndTimeOnEveryCheck ==
    [][\A t \in Threads :
        /\ Decays(t)
              => /\ time_of_last_query'[self'[t]] = clock
                 /\ api_counter'[self'[t]] <= api_counter[self'[t]]
                 /\ Elapsed(t) < DayTicks
                      => api_counter'[self'[t]] =
                           NonNegative(api_counter[self'[t]]
                              - (Elapsed(t) \div (factor[self'[t]] * TicksPerSecond)))
        /\ (decision[t] = "none" /\ decision'[t] # "none")
              => /\ pc[t] = "check"
                 /\ time_of_last_query[self[t]] = clock
                 /\ api_counter[self[t]] = post_decay[t]]_vars

\* a check that decayed the counter, stored the time, and is about to refuse
C15_Witness ==
    \E t \in Threads :
        /\ pc[t] = "check"
        /\ decr[t] > 0
        /\ api_counter[self[t]] >= limit[self[t]]
        /\ time_of_last_query[self[t]] = clock

\* C17 (as stated): every rate-limited call ends either admitted, with the
\* wrapped method invoked, or refused, with the method never invoked.
C17_EveryCallDecided ==
    \A t \in Threads :
        (pc[t] = "done" /\ func[t] \in WrappedMethods)
            => \/ decision[t] = "admitted" /\ sent[t] # "none"
               \/ decision[t] = "refused" /\ sent[t] = "none"

\* C17, on a client with a recognized tier: the call ends admitted with its
\* method invoked, or refused without, and no step of a call waits: from
\* every position inside a call a step of that call is possible.
C17_DecidedOnRecognizedTier ==
    \A t \in Threads :
        /\ (pc[t] = "done" /\ func[t] \in WrappedMethods /\ Recognized(self[t]))
            => \/ decision[t] = "admitted" /\ sent[t] # "none"
               \/ decision[t] = "refused" /\ sent[t] = "none"
        /\ pc[t] = "check" => ENABLED Check(t)
        /\ pc[t] = "incr" => ENABLED Count(t)
        /\ pc[t] = "done" => ENABLED Return(t)

\* C20: with a tier outside {2, 3, 4} construction succeeds and leaves limit
\* and factor unset; every rate-limited call on such a client then raises
\* (AttributeError) before any request is sent, and leaves the counter and
\* the time of last query as they were.
C20_UnrecognizedTierFailsOnUse ==
    [][\A i \in Instances :
        /\ \A tier \in Tiers \ {2, 3, 4} :
              Construct(i, tier)
                 => /\ attrs'[i] # {}
                    /\ "limit" \notin attrs'[i]
                    /\ "factor" \notin attrs'[i]
        /\ \A t \in Threads :
              (pc[t] = "idle" /\ pc'[t] # "idle" /\ self'[t] = i
                 /\ func'[t] \in WrappedMethods /\ ~Recognized(i))
                 => /\ pc'[t] = "done"
                    /\ result'[t] = "AttributeError"
                    /\ sent'[t] = "none"
                    /\ api_counter'[i] = api_counter[i]
                    /\ time_of_last_query'[i] = time_of_last_query[i]]_vars

\* a call on a client built with an unrecognized tier that raised, the time
\* of last query still the construction time
C20_Witness ==
    \E t \in Threads :
        /\ pc[t] = "done"
        /\ func[t] \in WrappedMethods
        /\ ~Recognized(self[t])
        /\ result[t] = "AttributeError"
        /\ sent[t] = "none"
        /\ api_counter[self[t]] = 0
        /\ time_of_last_query[self[t]] < clock

\* C11 (as stated): on a tier 2 client, of ledger/trade history calls issued
\* back to back from counter 0, the first 8 are admitted and leave the
\* counter at 2, 4, ..., 14, 16, and the 9th is refused with the counter
\* staying 16.
C11_HeavyBurst ==
    \A t \in Threads :
        (pc[t] = "done" /\ Recognized(self[t])
           /\ limit[self[t]] = 15 /\ factor[self[t]] = 3)
            => /\ calls <= 8 => /\ decision[t] = "admitted"
                                /\ api_counter[self[t]] = 2 * calls
               /\ calls = 9 => /\ decision[t] = "refused"
                               /\ api_counter[self[t]] = 16

\* C11, the part that holds whatever the calls' outcomes: in a burst a call
\* is admitted exactly while the counter is below limit; the counter never
\* falls, so once it has reached limit every later call is refused, and a
\* refusal leaves it unchanged.
C11_BurstAdmitsBelowLimit ==
    [][\A t \in Threads :
        /\ Decides(t) =>
              /\ decision'[t] = "admitted" <=> api_counter[self[t]] < limit[self[t]]
              /\ api_counter'[self[t]] = api_counter[self[t]]
        /\ \A i \in Instances :
              (Recognized(i) /\ attrs'[i] = attrs[i]) => api_counter'[i] >= api_counter[i]]_vars

\* C16 (as stated): with concurrent callers the counter is one that some
\* serial order of the calls produces: an admitted call is charged to a
\* counter that is still below limit, so the counter never exceeds
\* limit + 1, the most any serial order reaches.
C16_SerialCounter ==
    /\ \A i \in Instances : Recognized(i) => api_counter[i] <= limit[i] + 1
    /\ \A t \in Threads :
          pc[t] = "incr" => api_counter[self[t]] < limit[self[t]]

\* a step of caller t inside a call on instance i
CallStep(t, i) ==
    \/ pc[t] = "idle" /\ pc'[t] # "idle" /\ self'[t] = i
    \/ pc[t] # "idle" /\ pc'[t] # pc[t] /\ self[t] = i
\* a step of caller t that runs lines 57-62 or line 67 on instance i
LimiterStep(t, i) ==
    \/ pc[t] = "idle" /\ pc'[t] = "check" /\ self'[t] = i
    \/ pc[t] = "incr" /\ pc'[t] = "done" /\ self[t] = i

C19_InstancesIndependent ==
    [][\A i \in Instances : \A j \in Instances \ {i} :
          (\/ \E t \in Threads : \E m \in SampleMethods : PairEnter(t, i, m)
           \/ \E t \in Threads : CallStep(t, i)
           \/ attrs[i] = {} /\ attrs'[i] # {})
             => /\ attrs'[j] = attrs[j]
                /\ api_counter'[j] = api_counter[j]
                /\ time_of_last_query'[j] = time_of_last_query[j]
                /\ limit'[j] = limit[j]
                /\ factor'[j] = factor[j]]_vars

\* two instances of different tiers; a call on one was admitted and charged
\* after the clock advanced, the other still as constructed
C19_Witness ==
    \E t \in Threads : \E j \in Instances \ {self[t]} :
        /\ pc[t] = "done"
        /\ decision[t] = "admitted"
        /\ api_counter[self[t]] > 0
        /\ time_of_last_query[self[t]] > 0
        /\ Recognized(j)
        /\ limit[j] # limit[self[t]]
        /\ api_counter[j] = 0
        /\ time_of_last_query[j] = 0

\* C21: the cost of a call is fixed by its method alone: get_recent_trades,
\* get_trade_balance, get_trades_history, query_trades_info,
\* get_ledgers_info, query_ledgers and get_trade_volume cost 2 and every
\* other decorated method costs 1, whatever the counter, the tier, the time
\* elapsed and the outcome of the check; a call that is charged is charged
\* exactly that cost.
C21_CostFixedByMethod ==
    [][\A t \in Threads :
        LET cost(m) == IF m \in {"get_recent_trades", "get_trade_balance",
                                 "get_trades_history", "query_trades_info",
                                 "get_ledgers_info", "query_ledgers",
                                 "get_trade_volume"}
                       THEN 2 ELSE 1
        IN  /\ Decays(t) => incr'[t] = cost(func'[t])
            /\ (pc[t] = "incr" /\ pc'[t] = "done")
                  => api_counter'[self[t]] = api_counter[self[t]] + cost(func[t])]_vars

\* get_trade_volume charged 2 on a counter that time had decayed
C21_Witness ==
    \E t \in Threads :
        /\ pc[t] = "done"
        /\ func[t] = "get_trade_volume"
        /\ result[t] = "value"
        /\ post_decay[t] > 0
        /\ clock > 0
        /\ api_counter[self[t]] = post_decay[t] + 2

\* C22: elapsed time short of a decay period is discarded: a check made
\* less than a decay period after the previous check applies no decay and
\* still stores its own time, so a counter at or above limit stays there and
\* the call is refused, however much time such checks span in total.
C22_LeftoverDiscarded ==
    [][\A t \in Threads :
        /\ (Decays(t) /\ Elapsed(t) < factor[self'[t]] * TicksPerSecond)
              => /\ decr'[t] = 0
                 /\ api_counter'[self'[t]] = api_counter[self'[t]]
                 /\ time_of_last_query'[self'[t]] = clock
        /\ (Decides(t) /\ decr[t] = 0 /\ post_decay[t] >= limit[self[t]])
              => /\ decision'[t] = "refused"
                 /\ api_counter'[self[t]] = post_decay[t]]_vars

\* a call refused without decay at the highest counter a tier 3 or 4 client
\* reaches, when decay periods have gone by since construction
C22_Witness ==
    \E t \in Threads :
        /\ pc[t] = "done"
        /\ decision[t] = "refused"
        /\ ~clamped[t]
        /\ limit[self[t]] = 20
        /\ api_counter[self[t]] = 21
        /\ post_decay[t] = 21
        /\ time_of_last_query[self[t]] = clock
        /\ clock >= 4 * factor[self[t]] * TicksPerSecond

\* C23: the counter of a sequentially used client with a recognized tier is
\* at most limit + 1: a call is admitted, and charged, only on a counter of
\* at most limit - 1, and the largest cost is 2.
C23_CounterAtMostLimitPlusOne ==
    \A i \in Instances :
        Recognized(i)
            => /\ api_counter[i] <= (limit[i] - 1) + 2
               /\ \A t \in Threads :
                     (pc[t] \in {"func", "incr"} /\ self[t] = i
                        /\ decision[t] = "admitted")
                        => api_counter[i] <= limit[i] - 1

\* a tier 3 or 4 client with the counter at 21 after time has passed
C23_Witness ==
    \E i \in Instances :
        /\ Idle
        /\ Recognized(i)
        /\ limit[i] = 20
        /\ api_counter[i] = 21
        /\ time_of_last_query[i] > 0
        /\ clock > time_of_last_query[i]

\* C24: the counter is incremented only when the method has returned
\* normally: when an admitted method raises (KrakenAPIError, or an error of
\* the transport) the request has been sent, the call ends with the counter
\* at the decayed value of its check, and the time of last query is that of
\* this check.
C24_NoChargeWhenRaising ==
    [][\A t \in Threads :
        /\ \A o \in {"KrakenAPIError", "TransportError"} :
              (Query(t, o) /\ decision[t] = "admitted")
                 => /\ sent'[t] # "none"
                    /\ pc'[t] = "done"
                    /\ api_counter'[self[t]] = post_decay[t]
                    /\ time_of_last_query'[self[t]] = clock
        /\ (pc[t] # "idle" /\ api_counter'[self[t]] > api_counter[self[t]])
              => /\ pc[t] = "incr"
                 /\ sent[t] # "none"
                 /\ result'[t] = "value"]_vars

\* an admitted call whose request was sent and failed, ended with the
\* counter as its check left it, after a decay
C24_Witness ==
    \E t \in Threads :
        /\ pc[t] = "done"
        /\ decision[t] = "admitted"
        /\ sent[t] = "query_private"
        /\ result[t] = "TransportError"
        /\ post_decay[t] > 0
        /\ api_counter[self[t]] = post_decay[t]
        /\ time_of_last_query[self[t]] = clock
        /\ clock > 0

\* C26: add_standard_order, cancel_open_order, datetime_to_unixtime and
\* unixtime_to_datetime leave the counter, the time of last query, limit and
\* factor as they are, in every step from their call to their return or
\* exception.
C26_UnwrappedLeaveLimiterAlone ==
    [][\A t \in Threads :
        LET unwrapped == {"add_standard_order", "cancel_open_order",
                          "datetime_to_unixtime", "unixtime_to_datetime"}
        IN  (\/ pc[t] = "idle" /\ pc'[t] # "idle" /\ func'[t] \in unwrapped
             \/ pc[t] # "idle" /\ pc'[t] # pc[t] /\ func[t] \in unwrapped)
                => UNCHANGED <<attrs, api_counter, time_of_last_query, limit, factor>>]_vars

\* an order that was sent and failed on a client whose counter is at limit,
\* seconds after the last check
C26_Witness ==
    \E t \in Threads :
        /\ pc[t] = "done"
        /\ func[t] = "add_standard_order"
        /\ sent[t] = "query_private"
        /\ result[t] = "KrakenAPIError"
        /\ Recognized(self[t])
        /\ api_counter[self[t]] >= limit[self[t]]
        /\ clock > time_of_last_query[self[t]]

\* the wait the claim asks for after a refusal that left the counter of
\* instance i at its present value, in ticks
EnoughWait(i) == (api_counter[i] - limit[i] + 1) * factor[i] * TicksPerSecond

\* C25 (as stated): when the latest check on a client refused, the next call
\* made after waiting at least (counter - limit + 1) decay periods finds the
\* counter decayed below limit, and so is admitted, for every such waiting
\* time however long.
C25_AdmittedAfterWait ==
    [][\A t \in Threads :
        (Decays(t) /\ last_refused[self'[t]] /\ Elapsed(t) >= EnoughWait(self'[t]))
            => api_counter'[self'[t]] < limit[self'[t]]]_vars

\* C25, for a wait short of a day: the next call after a refusal, made after
\* at least (counter - limit + 1) decay periods and less than a day, finds
\* the counter below limit.
C25_AdmittedAfterWaitWithinADay ==
    [][\A t \in Threads :
        (Decays(t) /\ last_refused[self'[t]] /\ Elapsed(t) >= EnoughWait(self'[t])
           /\ Elapsed(t) < DayTicks)
            => api_counter'[self'[t]] < limit[self'[t]]]_vars

====
